---- MODULE Spec2Model ----
(***************************************************************************)
(* A model of WC.py: the WasteClassifier class (construction, image        *)
(* encoding, reply parsing, the remote classification call) and the        *)
(* Streamlit script main(), which is re-run from the top on every user     *)
(* action while st.session_state persists between the runs.                *)
(*                                                                         *)
(* A Python str is modelled as a sequence of one-character strings, so    *)
(* that split / strip / lstrip are computed character by character.        *)
(***************************************************************************)
EXTENDS Integers, Sequences, FiniteSets, TLC

\* Longest raw text handed to clean_response in ParserSpec.
MaxLen == 4
\* Number of script runs of one browser session explored in Spec.
MaxRuns == 3

(***************************************************************************)
(* Python values                                                           *)
(***************************************************************************)
\* The characters the texts are drawn from: two letters, a digit, the dot,
\* and three whitespace characters (space, tab, newline).
Alphabet == {"a", "b", "1", ".", " ", "\t", "\n"}

\* str.strip() with no argument removes these (the ones in Alphabet).
Whitespace == {" ", "\t", "\n"}

\* The argument of lstrip at line 40: '0123456789. ' (one digit in Alphabet).
NumberingChars == {"0", "1", "2", "3", "4", "5", "6", "7", "8", "9", ".", " "}

\* A Python value: its type, its characters when it is a str, and the camera
\* image it holds (an ndarray) or encodes (a base64 str); 0 is no image.
NoneVal == [type |-> "NoneType", chars |-> <<>>, image |-> 0]

Str(s) == [type |-> "str", chars |-> s, image |-> 0]

\* All texts of at most n characters.
Texts(n) == UNION {[1..k -> Alphabet] : k \in 0..n}

RECURSIVE lstrip(_, _)
\* str.lstrip(chars): drop the leading run of characters that are in chars.
lstrip(s, chars) ==
    IF s = <<>> THEN s
    ELSE IF Head(s) \in chars THEN lstrip(Tail(s), chars)
    ELSE s

RECURSIVE rstrip(_, _)
\* str.rstrip(chars): drop the trailing run of characters that are in chars.
rstrip(s, chars) ==
    IF s = <<>> THEN s
    ELSE IF s[Len(s)] \in chars THEN rstrip(SubSeq(s, 1, Len(s) - 1), chars)
    ELSE s

\* str.strip(): drop leading and trailing whitespace.
strip(s) == rstrip(lstrip(s, Whitespace), Whitespace)

RECURSIVE split(_, _)
\* str.split(sep) for a one-character sep: the pieces between the separators,
\* empty pieces included; always at least one piece.
split(s, sep) ==
    IF \A i \in 1..Len(s) : s[i] # sep THEN <<s>>
    ELSE LET i == CHOOSE j \in 1..Len(s) :
                      s[j] = sep /\ \A k \in 1..(j - 1) : s[k] # sep
         IN  <<SubSeq(s, 1, i - 1)>> \o split(SubSeq(s, i + 1, Len(s)), sep)

(***************************************************************************)
(* WasteClassifier.clean_response (lines 35-45)                            *)
(***************************************************************************)
FallbackCategory ==
    <<"M", "i", "s", "c", "e", "l", "l", "a", "n", "e", "o", "u", "s">>

FallbackAdvice ==
    <<"G", "e", "n", "e", "r", "a", "l", " ", "w", "a", "s", "t", "e", " ",
      "d", "i", "s", "p", "o", "s", "a", "l", " ", "r", "e", "c", "o", "m",
      "m", "e", "n", "d", "e", "d">>

\* The pair returned at lines 45, 54 and 100.
Fallback == <<FallbackCategory, FallbackAdvice>>

\* A call's outcome: a returned value, or an exception leaving the call.
Returned(v) == [raised |-> "none", value |-> v]

Raised(e) == [raised |-> e, value |-> <<>>]

\* A plausible slip: splitting on spaces instead of on newlines.
LinesSplitOnSpace(text) == split(text, " ")

\* response.split('\n') at line 40.
Lines(text) == split(text, "\n")

\* line.strip().lstrip('0123456789. ') at line 40.
CleanLine(line) == lstrip(strip(line), NumberingChars)

\* The list comprehension of line 40.
CleanedLines(text) ==
    LET lines == Lines(text)
    IN  [i \in 1..Len(lines) |-> CleanLine(lines[i])]

\* clean_response(response).  None has no split attribute: line 40 raises
\* AttributeError before anything is returned.
clean_response(response) ==
    IF response.type # "str" THEN Raised("AttributeError")
    ELSE LET cleaned_lines == CleanedLines(response.chars)
         IN  IF Len(cleaned_lines) >= 2
             THEN Returned(<<cleaned_lines[1], cleaned_lines[2]>>)
             ELSE Returned(Fallback)

(***************************************************************************)
(* WasteClassifier.__init__, encode_image, classify_image                  *)
(***************************************************************************)
\* Python truthiness of a str-or-None value: None and '' are falsy.
Falsy(v) == v.type = "NoneType" \/ (v.type = "str" /\ v.chars = <<>>)

\* `a or b` on such values (line 20).
Or(a, b) == IF Falsy(a) THEN b ELSE a

\* A plausible slip: testing `api_key is None` instead of `not api_key`.
KeyIsNone(api_key) == api_key.type = "NoneType"

\* `not api_key` at line 21.
KeyMissing(api_key) == Falsy(api_key)

\* What os.getenv('GROQ_API_KEY') can give after load_dotenv(): unset,
\* set to the empty string, or set to a key.
EnvKeys == {NoneVal, Str(<<>>), Str(<<"g", "s", "k">>)}

\* The frame a successful cap.read() gives in the n-th run of the script.
Frame(n) == [type |-> "ndarray", chars |-> <<>>, image |-> n]

\* base64 text of the JPEG bytes of a frame (line 33): never empty, and
\* decodable to the bytes of that one frame.
B64(frame) == [type |-> "str", chars |-> <<"/", "9", "j">>, image |-> frame.image]

\* What encode_image can do with a frame: return the base64 text, return ''
\* when imencode yields an empty buffer, or raise (cv2.error).
EncodeOutcomes == {"ok", "empty", "raise"}

\* encode_image(frame), lines 27-33, for each outcome of cv2.imencode.
encode_image(frame, outcome) ==
    CASE outcome = "ok" -> Returned(B64(frame))
      [] outcome = "empty" -> Returned(Str(<<>>))
      [] outcome = "raise" -> Raised("cv2.error")

\* A plausible slip: classify_image without its empty-input guard.
NoImageCheck(base64_image) == FALSE

\* `not base64_image` at line 52.
EmptyImage(base64_image) == Falsy(base64_image)

\* Message contents the remote model may reply with.
Replies ==
    { <<"a", "\n", "b">>,                       \* category, advice
      <<"a">>,                                  \* one line only
      <<"a", "\n", "\n", "b">>,                 \* a blank line in between
      <<>>,                                     \* empty content
      <<" ", "1", ".", "b", "\n", ".", "a", "\n">> }  \* numbered, padded

\* What client.chat.completions.create and the reply's shape can be.
RemoteOutcomes ==
    {[kind |-> "ok", content |-> r] : r \in Replies} \cup
    {[kind |-> k, content |-> <<>>] : k \in {"api_error", "no_choices", "no_content"}}

FailureKinds == {"api_error", "no_choices", "no_content"}

\* The try body, lines 57-96: create() raises on a network, service, auth
\* or rate-limit error; choices[0] raises IndexError on an empty list;
\* None.strip() raises AttributeError; otherwise the stripped content is
\* handed to clean_response.
TryBody(out) ==
    CASE out.kind = "api_error" -> Raised("APIError")
      [] out.kind = "no_choices" -> Raised("IndexError")
      [] out.kind = "no_content" -> Raised("AttributeError")
      [] out.kind = "ok" -> clean_response(Str(strip(out.content)))

\* A plausible slip: catching only the client's own error class.
ExceptApiErrorOnly(e) == e = "APIError"

\* `except Exception` at line 98 catches every one of these.
ExceptException(e) == e \in {"APIError", "IndexError", "AttributeError"}

(***************************************************************************)
(* main(): the decisions it takes                                          *)
(***************************************************************************)
\* A key that st.session_state does not hold.
Absent == [type |-> "absent", chars |-> <<>>, image |-> 0]

\* `if key not in st.session_state: st.session_state[key] = None`
\* for the three keys, lines 112-117.
InitKeys(ss) ==
    LET init(v) == IF v = Absent THEN NoneVal ELSE v
    IN  [classification |-> init(ss.classification),
         handling_advice |-> init(ss.handling_advice),
         current_frame |-> init(ss.current_frame)]

\* A plausible slip: clearing the stored frame when the read fails.
StoreFrameOrClear(ss, ret, f) ==
    [ss EXCEPT !.current_frame = IF ret THEN f ELSE NoneVal]

\* `if ret: ... st.session_state.current_frame = frame`, lines 134-137.
StoreFrame(ss, ret, f) ==
    IF ret THEN [ss EXCEPT !.current_frame = f] ELSE ss

\* The condition of line 140.
ShouldClassify(button, ss) == button /\ ss.current_frame # NoneVal

\* A plausible slip: releasing the camera at the end of every run.
ReleaseAlways(button) == TRUE

\* The condition of line 149.
ShouldRelease(button) == button

(***************************************************************************)
(* State                                                                   *)
(***************************************************************************)
VARIABLES
    response,       \* the argument of a direct call of clean_response
    result,         \* what that call produced
    cpc,            \* "call" before that call, "done" after it
    pc,             \* where the script is: "idle" before the first run,
                    \* a line of main() during a run, "done" after it
    runs,           \* how many runs of the script were started
    env_key,        \* what os.getenv('GROQ_API_KEY') gives in this run
    classify_button,\* st.button("Classify Current Frame") in this run
    stop_button,    \* st.button("Stop Webcam") in this run
    session_state,  \* st.session_state, kept from run to run
    start_state,    \* st.session_state as this run found it
    cap,            \* this run's VideoCapture: "unopened", "open",
                    \* "failed" (isOpened false) or "released"
    frame,          \* the frame this run's cap.read() gave, or None
    last_read,      \* the frame of the latest successful read of the session
    base64_image,   \* what encode_image returned in this run
    sent,           \* the images of the requests sent in this run
    remote,         \* how this run's request ended, "none" before
    ci_result,      \* what classify_image returned (or raised) in this run
    rendered,       \* the page elements this run has rendered
    notices,        \* the st.error notices this run has shown
    exc,            \* the exception that left main() in this run, or "none"
    log             \* this run's steps, in order

pvars == <<response, result, cpc>>

svars == <<pc, runs, env_key, classify_button, stop_button, session_state,
           start_state, cap, frame, last_read, base64_image, sent, remote,
           ci_result, rendered, notices, exc, log>>

vars == <<pvars, svars>>

NoResult == [raised |-> "pending", value |-> <<>>]

\* The process has started; the script has not run yet.
SessionInit ==
    /\ pc = "idle"
    /\ runs = 0
    /\ env_key = NoneVal
    /\ classify_button = FALSE
    /\ stop_button = FALSE
    /\ session_state = [classification |-> Absent, handling_advice |-> Absent,
                        current_frame |-> Absent]
    /\ start_state = session_state
    /\ cap = "unopened"
    /\ frame = NoneVal
    /\ last_read = NoneVal
    /\ base64_image = NoneVal
    /\ sent = <<>>
    /\ remote = "none"
    /\ ci_result = NoResult
    /\ rendered = {}
    /\ notices = {}
    /\ exc = "none"
    /\ log = <<>>

(***************************************************************************)
(* ParserSpec: clean_response called directly on every bounded input       *)
(***************************************************************************)
ParserInputs == {Str(t) : t \in Texts(MaxLen)} \cup {NoneVal}

ParserInit ==
    /\ response \in ParserInputs
    /\ result = NoResult
    /\ cpc = "call"
    /\ SessionInit

CallCleanResponse ==
    /\ cpc = "call"
    /\ result' = clean_response(response)
    /\ cpc' = "done"
    /\ UNCHANGED <<response, svars>>

ParserNext == CallCleanResponse

ParserSpec == ParserInit /\ [][ParserNext]_vars

(***************************************************************************)
(* Spec: one browser session, the script run again on every user action    *)
(***************************************************************************)
Init ==
    /\ response = NoneVal
    /\ result = NoResult
    /\ cpc = "unused"
    /\ SessionInit

\* Streamlit starts a run of the script; lines 103-104.  A button reads
\* True only when it was on the page the user acted on, that is when the
\* previous run rendered it; two clicks queued before the run starts are
\* coalesced into one run in which both buttons read True.
StartRun ==
    /\ pc \in {"idle", "done"}
    /\ runs < MaxRuns
    /\ \E key \in EnvKeys, cb \in BOOLEAN, sb \in BOOLEAN :
        /\ (cb \/ sb) => "buttons" \in rendered
        /\ env_key' = key
        /\ classify_button' = cb
        /\ stop_button' = sb
    /\ runs' = runs + 1
    /\ pc' = "construct"
    /\ start_state' = session_state
    /\ cap' = "unopened"
    /\ frame' = NoneVal
    /\ base64_image' = NoneVal
    /\ sent' = <<>>
    /\ remote' = "none"
    /\ ci_result' = NoResult
    /\ rendered' = {"title"}
    /\ notices' = {}
    /\ exc' = "none"
    /\ log' = <<>>
    /\ UNCHANGED <<pvars, session_state, last_read>>

\* classifier = WasteClassifier(), lines 106-109 and 16-25: without a key
\* the constructor shows the error and raises ValueError, and main answers
\* with st.stop(), which ends the run.
Construct ==
    /\ pc = "construct"
    /\ LET api_key == Or(NoneVal, env_key)
       IN  IF KeyMissing(api_key)
           THEN /\ notices' = notices \cup {"No Groq API key found"}
                /\ pc' = "done"
           ELSE /\ pc' = "init_state"
                /\ UNCHANGED notices
    /\ UNCHANGED <<pvars, runs, env_key, classify_button, stop_button,
                   session_state, start_state, cap, frame, last_read,
                   base64_image, sent, remote, ci_result, rendered, exc, log>>

\* Lines 111-117.
InitSessionState ==
    /\ pc = "init_state"
    /\ session_state' = InitKeys(session_state)
    /\ pc' = "open_camera"
    /\ UNCHANGED <<pvars, runs, env_key, classify_button, stop_button,
                   start_state, cap, frame, last_read, base64_image, sent,
                   remote, ci_result, rendered, notices, exc, log>>

\* cap = cv2.VideoCapture(0) and the isOpened test, lines 119-122.
OpenCamera ==
    /\ pc = "open_camera"
    /\ \E opened \in BOOLEAN :
        IF opened
        THEN /\ cap' = "open"
             /\ pc' = "widgets"
             /\ UNCHANGED notices
        ELSE /\ cap' = "failed"
             /\ notices' = notices \cup {"Unable to access webcam"}
             /\ pc' = "done"
    /\ log' = Append(log, "open")
    /\ UNCHANGED <<pvars, runs, env_key, classify_button, stop_button,
                   session_state, start_state, frame, last_read,
                   base64_image, sent, remote, ci_result, rendered, exc>>

\* The placeholders and the two buttons, lines 124-130.
CreateWidgets ==
    /\ pc = "widgets"
    /\ rendered' = rendered \cup {"buttons"}
    /\ pc' = "read"
    /\ UNCHANGED <<pvars, runs, env_key, classify_button, stop_button,
                   session_state, start_state, cap, frame, last_read,
                   base64_image, sent, remote, ci_result, notices, exc, log>>

\* ret, frame = cap.read() and what follows it, lines 132-137.
ReadFrame ==
    /\ pc = "read"
    /\ \E ret \in BOOLEAN :
        /\ frame' = IF ret THEN Frame(runs) ELSE NoneVal
        /\ last_read' = IF ret THEN Frame(runs) ELSE last_read
        /\ rendered' = IF ret THEN rendered \cup {"frame"} ELSE rendered
        /\ session_state' = StoreFrame(session_state, ret, Frame(runs))
    /\ log' = Append(log, "read")
    /\ pc' = "classify_check"
    /\ UNCHANGED <<pvars, runs, env_key, classify_button, stop_button,
                   start_state, cap, base64_image, sent, remote, ci_result,
                   notices, exc>>

\* The test of line 140.
ClassifyCheck ==
    /\ pc = "classify_check"
    /\ pc' = IF ShouldClassify(classify_button, session_state)
             THEN "encode" ELSE "stop_check"
    /\ UNCHANGED <<pvars, runs, env_key, classify_button, stop_button,
                   session_state, start_state, cap, frame, last_read,
                   base64_image, sent, remote, ci_result, rendered, notices,
                   exc, log>>

\* Line 141.  Nothing in main catches what encode_image raises: the
\* exception leaves main and the run ends there.
EncodeImage ==
    /\ pc = "encode"
    /\ \E outcome \in EncodeOutcomes :
        LET r == encode_image(session_state.current_frame, outcome)
        IN  IF r.raised = "none"
            THEN /\ base64_image' = r.value
                 /\ pc' = "classify_image"
                 /\ UNCHANGED exc
            ELSE /\ exc' = r.raised
                 /\ pc' = "done"
                 /\ UNCHANGED base64_image
    /\ log' = Append(log, "encode")
    /\ UNCHANGED <<pvars, runs, env_key, classify_button, stop_button,
                   session_state, start_state, cap, frame, last_read, sent,
                   remote, ci_result, rendered, notices>>

\* classify_image up to the moment the request is on its way, lines 52-57.
SendRequest ==
    /\ pc = "classify_image"
    /\ IF EmptyImage(base64_image)
       THEN /\ notices' = notices \cup {"Empty image input"}
            /\ ci_result' = Returned(Fallback)
            /\ pc' = "update"
            /\ UNCHANGED <<sent, log>>
       ELSE /\ sent' = Append(sent, base64_image)
            /\ log' = Append(log, "request")
            /\ pc' = "await"
            /\ UNCHANGED <<notices, ci_result>>
    /\ UNCHANGED <<pvars, runs, env_key, classify_button, stop_button,
                   session_state, start_state, cap, frame, last_read,
                   base64_image, remote, rendered, exc>>

\* The blocking call comes back: the rest of the try body and the except
\* clause, lines 57-100.
RemoteReturns ==
    /\ pc = "await"
    /\ \E out \in RemoteOutcomes :
        LET r == TryBody(out)
        IN  /\ remote' = out.kind
            /\ IF r.raised = "none"
               THEN /\ ci_result' = r
                    /\ pc' = "update"
                    /\ UNCHANGED <<notices, exc>>
               ELSE IF ExceptException(r.raised)
               THEN /\ notices' = notices \cup {"Classification error"}
                    /\ ci_result' = Returned(Fallback)
                    /\ pc' = "update"
                    /\ UNCHANGED exc
               ELSE /\ ci_result' = r
                    /\ exc' = r.raised
                    /\ pc' = "done"
                    /\ UNCHANGED notices
    /\ log' = Append(log, "response")
    /\ UNCHANGED <<pvars, runs, env_key, classify_button, stop_button,
                   session_state, start_state, cap, frame, last_read,
                   base64_image, sent, rendered>>

\* The assignment of line 142 and the two panels, lines 145-146.
UpdateState ==
    /\ pc = "update"
    /\ session_state' = [session_state EXCEPT
                            !.classification = Str(ci_result.value[1]),
                            !.handling_advice = Str(ci_result.value[2])]
    /\ rendered' = rendered \cup {"result", "advice"}
    /\ log' = Append(log, "update")
    /\ pc' = "stop_check"
    /\ UNCHANGED <<pvars, runs, env_key, classify_button, stop_button,
                   start_state, cap, frame, last_read, base64_image, sent,
                   remote, ci_result, notices, exc>>

\* Lines 148-151, and the end of the run.
StopCheck ==
    /\ pc = "stop_check"
    /\ IF ShouldRelease(stop_button)
       THEN /\ cap' = "released"
            /\ log' = Append(log, "release")
            /\ rendered' = rendered \cup {"stopped"}
       ELSE UNCHANGED <<cap, log, rendered>>
    /\ pc' = "done"
    /\ UNCHANGED <<pvars, runs, env_key, classify_button, stop_button,
                   session_state, start_state, frame, last_read,
                   base64_image, sent, remote, ci_result, notices, exc>>

Next ==
    \/ StartRun
    \/ Construct
    \/ InitSessionState
    \/ OpenCamera
    \/ CreateWidgets
    \/ ReadFrame
    \/ ClassifyCheck
    \/ EncodeImage
    \/ SendRequest
    \/ RemoteReturns
    \/ UpdateState
    \/ StopCheck

Spec == Init /\ [][Next]_vars

(***************************************************************************)
(* Claims about clean_response, checked under ParserSpec                   *)
(***************************************************************************)
ParserDone == cpc = "done" /\ response.type = "str"

\* The lines of a text that are not blank (something is left after strip).
NonEmptyLines(text) == SelectSeq(Lines(text), LAMBDA l : strip(l) # <<>>)

\* The cleaned lines of a text that are not empty after cleaning.
NonTrivialLines(text) == SelectSeq(CleanedLines(text), LAMBDA l : l # <<>>)

\* C1: for every text with at least two non-empty lines, clean_response
\* returns the first two non-empty lines, each stripped of surrounding
\* whitespace and then of its leading run of digits, dots and spaces,
\* wherever the blank lines sit.
C1_FirstTwoNonEmptyLines ==
    (ParserDone /\ Len(NonEmptyLines(response.chars)) >= 2) =>
        LET ne == NonEmptyLines(response.chars)
        IN  result = Returned(<<CleanLine(ne[1]), CleanLine(ne[2])>>)

\* C2: when fewer than two non-trivial lines remain after the per-line
\* cleaning, clean_response returns the fallback pair.
C2_FewerThanTwoNonTrivialGivesFallback ==
    (ParserDone /\ Len(NonTrivialLines(response.chars)) < 2) =>
        result = Returned(Fallback)

\* C3: for the empty string and for every text without a newline character,
\* clean_response returns the fallback pair.
C3_SingleLineGivesFallback ==
    (ParserDone /\ \A i \in 1..Len(response.chars) : response.chars[i] # "\n") =>
        result = Returned(Fallback)

\* A numbered one-line reply with a space in it has been parsed, and the
\* empty string is among the inputs.
C3_Witness ==
    /\ cpc = "done"
    /\ response = Str(<<"1", ".", " ", "a">>)
    /\ result = Returned(Fallback)
    /\ Str(<<>>) \in ParserInputs

\* C7: clean_response never raises, and returns the fallback pair when the
\* raw text is absent (None).
C7_NeverRaises ==
    cpc = "done" =>
        /\ result.raised = "none"
        /\ response = NoneVal => result = Returned(Fallback)

(***************************************************************************)
(* Claims about a session, checked under Spec                              *)
(***************************************************************************)
\* This run has taken step e.
Has(e) == \E i \in 1..Len(log) : log[i] = e

\* Step e was taken before step f in this run.
Before(e, f) ==
    \E i \in 1..Len(log) : \E j \in 1..Len(log) :
        i < j /\ log[i] = e /\ log[j] = f

\* A session-state field holds something that can be displayed.
IsSet(v) == v.type = "str"

Panels == {"result", "advice"}

\* The (classification, handling_advice) pair of a session state in which
\* the keys exist.
PairOf(ss) == <<InitKeys(ss).classification, InitKeys(ss).handling_advice>>

\* C4: whenever the remote call fails (service error, no choices, content
\* absent), classify_image shows an error notice and returns the fallback
\* pair, and no exception leaves it.
C4_RemoteFailureGivesFallback ==
    remote \in FailureKinds =>
        /\ ci_result = Returned(Fallback)
        /\ "Classification error" \in notices
        /\ exc = "none"

\* A run whose reply had no message content has ended with the fallback
\* pair in session state.
C4_Witness ==
    /\ pc = "done"
    /\ remote = "no_content"
    /\ "Classification error" \in notices
    /\ session_state.classification = Str(FallbackCategory)
    /\ session_state.handling_advice = Str(FallbackAdvice)

\* C5 as claimed: after every classify action, whatever failed on its path
\* (encode_image included), no exception has left main, both fields of the
\* pair in session state are set and both panels are rendered.
C5_EveryClassifyErrorCaught ==
    (pc = "done" /\ Has("encode")) =>
        /\ exc = "none"
        /\ IsSet(session_state.classification)
        /\ IsSet(session_state.handling_advice)
        /\ Panels \subseteq rendered

\* C5 as amended: after a classify action whose encode_image call returned,
\* no exception has left main, both fields are set and both panels are
\* rendered; when encode_image raised, that exception has left main, the
\* pair in session state is the one the run found and no panel is rendered.
C5_CaughtUnlessEncodeRaises ==
    (pc = "done" /\ Has("encode")) =>
        IF base64_image = NoneVal
        THEN /\ exc = "cv2.error"
             /\ PairOf(session_state) = PairOf(start_state)
             /\ Panels \cap rendered = {}
             /\ sent = <<>>
        ELSE /\ exc = "none"
             /\ IsSet(session_state.classification)
             /\ IsSet(session_state.handling_advice)
             /\ Panels \subseteq rendered

\* A classify action whose request failed has ended with a displayable
\* pair and both panels.
C5_Witness ==
    /\ pc = "done"
    /\ remote \in FailureKinds
    /\ session_state.classification.chars = Fallback[1]
    /\ session_state.handling_advice.chars = Fallback[2]
    /\ Panels \subseteq rendered
    /\ exc = "none"

\* C6: in a run that finds no API key (unset or empty), the constructor
\* reports the error and main halts: the camera is not opened, no button,
\* frame or panel is rendered, session state is as the run found it, and
\* no request is sent.
C6_NoKeyHaltsBeforeUI ==
    (pc \notin {"idle", "construct"} /\ env_key \in {NoneVal, Str(<<>>)}) =>
        /\ pc = "done"
        /\ "No Groq API key found" \in notices
        /\ cap = "unopened"
        /\ log = <<>>
        /\ rendered \cap ({"buttons", "frame", "stopped"} \cup Panels) = {}
        /\ session_state = start_state
        /\ sent = <<>>

\* A later run of a session that already holds a classification has found
\* the key set to the empty string and has halted.
C6_Witness ==
    /\ pc = "done"
    /\ env_key = Str(<<>>)
    /\ IsSet(start_state.classification)
    /\ "No Groq API key found" \in notices

\* C8: a classify action sends at most one request: exactly one when the
\* encoded image is non-empty, none when it is empty (the fallback pair is
\* then returned directly); nothing is sent again after a failure; and the
\* pair in session state changes only after the request came back.
C8_AtMostOneRequest ==
    /\ Len(sent) <= 1
    /\ (base64_image # NoneVal /\ pc # "classify_image") =>
           IF base64_image.chars = <<>>
           THEN sent = <<>> /\ ci_result = Returned(Fallback)
           ELSE Len(sent) = 1 /\ sent[1] = base64_image
    /\ remote # "none" => Len(sent) = 1
    /\ ~Has("update") => PairOf(session_state) = PairOf(start_state)
    /\ (Has("update") /\ sent # <<>>) =>
           Before("request", "response") /\ Before("response", "update")

\* A classify action whose request failed has ended after one request.
C8_Witness ==
    /\ pc = "done"
    /\ remote = "api_error"
    /\ Len(sent) = 1
    /\ Has("update")

\* C9 as claimed: the frame a classify action encodes and sends is the
\* frame read from the camera in that same run.
C9_SentFrameIsThisRunsFrame ==
    /\ (pc = "encode" \/ Has("encode")) => session_state.current_frame = frame
    /\ sent # <<>> => (frame # NoneVal /\ sent[1] = B64(frame))

\* C9 as amended: the frame a classify action encodes and sends is the
\* frame of the latest successful camera read of the session: this run's
\* when its read succeeded, otherwise the one an earlier run left in
\* session state, which a classify action of this run does classify.
C9_SentFrameIsLatestRead ==
    /\ (pc = "encode" \/ Has("encode")) =>
           /\ last_read # NoneVal
           /\ session_state.current_frame = last_read
    /\ sent # <<>> => sent[1] = B64(last_read)
    /\ frame # NoneVal => last_read = frame
    /\ (Has("read") /\ pc # "classify_check" /\ classify_button
            /\ last_read # NoneVal) =>
           (pc = "encode" \/ Has("encode"))

\* A run whose own read failed has sent an earlier run's frame.
C9_Witness ==
    /\ sent # <<>>
    /\ frame = NoneVal
    /\ sent[1].image < runs

\* C10 as claimed: a run that opened the camera has released it when it
\* ends exactly if the stop action was triggered in it, after the read and
\* any classification; a run that did not open it never releases it.
C10_ReleasedExactlyOnStop ==
    /\ (pc = "done" /\ cap \in {"open", "released"}) =>
           (Has("release") <=> stop_button)
    /\ Has("release") => (log[Len(log)] = "release" /\ Has("read"))
    /\ cap \in {"unopened", "failed"} => ~Has("release")

\* C10 as amended: a run that opened the camera has released it when it
\* ends exactly if the stop action was triggered in it and no exception
\* raised by encode_image ended the run before line 149; the release is
\* the run's last step, after the read and any classification; a run that
\* did not open the camera never releases it.
C10_ReleasedOnStopUnlessRaised ==
    /\ (pc = "done" /\ cap \in {"open", "released"}) =>
           (Has("release") <=> (stop_button /\ exc = "none"))
    /\ Has("release") =>
           /\ pc = "done"
           /\ log[Len(log)] = "release"
           /\ \A i \in 1..(Len(log) - 1) : log[i] # "release"
           /\ Has("read")
    /\ cap = "released" <=> Has("release")
    /\ cap \in {"unopened", "failed"} => ~Has("release")

\* A run with both actions triggered has classified and then released.
C10_Witness ==
    /\ pc = "done"
    /\ stop_button
    /\ classify_button
    /\ Before("update", "release")
    /\ cap = "released"

====
